---- MODULE Spec2Model ----
(***************************************************************************)
(* The tool-calling loop of the Alfred agent: run_agent_with_tools of      *)
(* app.py (explicit loop around alfred.invoke with manual tool dispatch)   *)
(* and run_agent_with_tools of core/app.py (a single agent.invoke).        *)
(*                                                                         *)
(* A message is a record                                                   *)
(*   type      "human", "ai", "tool"                                           *)
(*   id        serial number of the message object (identity of the turn)  *)
(*   tool_call the value of the tool_call attribute, NoDict when the       *)
(*             object has no such attribute                                *)
(*   text      the content when it is a string                             *)
(*   dict      the content when it is a mapping, NoDict otherwise          *)
(* The gateway (alfred.invoke / agent.invoke) and the tool bodies are      *)
(* external: their outcomes are chosen nondeterministically.               *)
(***************************************************************************)
EXTENDS Integers, Sequences, FiniteSets, TLC

ROLLING_MEMORY_WINDOW == 50

\* Bounds of the model.
MaxSteps == 2        \* max_steps ranges over 1..MaxSteps
MaxProduced == 2     \* an agent invocation produces 1..MaxProduced new messages
MaxOver == 1         \* input histories have up to ROLLING_MEMORY_WINDOW + MaxOver turns
MaxTools == 3        \* a tools list has up to MaxTools descriptors
MaxPrompts == 3      \* a chat session submits up to MaxPrompts prompts
MaxQueries == 2      \* a test_queries list has up to MaxQueries queries

VARIABLES
    \* one call of run_agent_with_tools
    entry,         \* which run_agent_with_tools is called: "app" or "core"
    input0,        \* the conversation as passed by the caller
    messages,      \* the caller's list (extended in place by app.py)
    max_steps,     \* the step budget
    step,          \* iterations of the for loop completed
    pc,            \* "loop", "tool", "returned", "raised"
    pending,       \* the tool and raw arguments being dispatched while pc = "tool"
    result,        \* the returned list once pc = "returned"
    context,       \* the context passed on the latest gateway call
    gatewayLog,    \* one entry per gateway call: ok and the messages produced
    toolLog,       \* one entry per tool call: the invocation, the request's arguments, raised
    nextId,        \* next message serial number
    \* module state
    registry,      \* the module-level tools list
    regPc,         \* "start" before the list is built, "built" after
    resolved,      \* the latest lookup in the list: the name asked and the index found
    AGENT_INSTANCE, \* core/app.py _AGENT_INSTANCE: 0 for None, else the graph built
    builds,        \* number of build_agent_graph() calls made by get_agent
    \* concurrent callers of core/app.py
    sessions,      \* per caller: position, input, the agent it got, what it returned
    \* the chat handlers of the two Streamlit scripts
    ui,            \* which script runs: "streamlit_app" or "streamlit_app_with_evaluation"
    langfuse,      \* whether the evaluator has a tracing client
    session_state, \* st.session_state["messages"]
    shown,         \* what the latest handler run displayed: widget and text
    invoked,       \* the message list given to the agent, one entry per handler run
    prompts,       \* number of prompts submitted
    handlerRaised, \* whether a handler run was left by an exception
    \* one call of run_evaluation
    evalPc,        \* "loop", "returned", "raised"
    test_queries,  \* the queries, after the default list replaced None
    results,       \* the result dicts collected so far
    total_time,    \* sum of the execution times collected so far
    successful_runs, \* number of results with success set
    traced,        \* one entry per trace_conversation call: the query and the agent's outcome
    evaluation_summary \* the returned dict once evalPc = "returned"

runVars == <<entry, input0, messages, max_steps, step, pc, pending, result,
             context, gatewayLog, toolLog, nextId>>
regVars == <<registry, regPc, resolved>>
agentVars == <<AGENT_INSTANCE, builds>>
uiVars == <<ui, langfuse, session_state, shown, invoked, prompts, handlerRaised>>
evalVars == <<evalPc, test_queries, results, total_time, successful_runs, traced,
              evaluation_summary>>
vars == <<runVars, regVars, agentVars, sessions, uiVars, evalVars>>

Absent == "<absent>"

\* Values of a tool request's arguments: a missing key, a scalar string, or
\* a mapping with one key.
NoArg == [kind |-> "absent", key |-> Absent, val |-> Absent]
Scalar(s) == [kind |-> "scalar", key |-> Absent, val |-> s]
Mapping(k, v) == [kind |-> "mapping", key |-> k, val |-> v]

\* A mapping carrying a tool request (keys "name", "arguments", "input");
\* NoDict stands for "no mapping here".
NoDict == [present |-> FALSE, name |-> Absent, arguments |-> NoArg, input |-> NoArg]
Dict(n, a, i) == [present |-> TRUE, name |-> n, arguments |-> a, input |-> i]

HumanMessage(i, t) ==
    [type |-> "human", id |-> i, tool_call |-> NoDict, text |-> t, dict |-> NoDict]
AIMessage(i, t) ==
    [type |-> "ai", id |-> i, tool_call |-> NoDict, text |-> t, dict |-> NoDict]
AIToolCallAttr(i, d) ==
    [type |-> "ai", id |-> i, tool_call |-> d, text |-> <<>>, dict |-> NoDict]
AIDictContent(i, d) ==
    [type |-> "ai", id |-> i, tool_call |-> NoDict, text |-> <<>>, dict |-> d]

\* The registry: tools = [guest_info_tool, web_search_tool, hub_stats_tool].
tools == << [name |-> "guest_info_retriever", func |-> "extract_text"],
            [name |-> "web_search", func |-> "web_search"],
            [name |-> "get_hub_stats", func |-> "get_hub_stats"] >>

\* A list literal of descriptors: any list is accepted as it is.
BuildRegistry(descriptors) == descriptors

\* Python slices.
SliceFrom(s, k) == IF k >= Len(s) THEN <<>> ELSE SubSeq(s, k + 1, Len(s))
SliceLast(s, n) == IF Len(s) <= n THEN s ELSE SubSeq(s, Len(s) - n + 1, Len(s))

\* messages[-ROLLING_MEMORY_WINDOW:]
WindowWhole(msgs) == msgs
Window(msgs) == SliceLast(msgs, ROLLING_MEMORY_WINDOW)

\* new_msgs = response["messages"][len(messages):]
NewMsgs(response, msgs) == SliceFrom(response, Len(msgs))

\* hasattr(last_msg, "tool_call") or (isinstance(content, dict) and "name" in content)
HasToolCallAttr(m) == m.tool_call.present
IsToolCallAttrOnly(m) == HasToolCallAttr(m)
IsToolCall(m) == HasToolCallAttr(m) \/ (m.dict.present /\ m.dict.name # Absent)

\* tool_call = last_msg.tool_call if hasattr(...) else last_msg.content
ToolCallOf(m) == IF HasToolCallAttr(m) THEN m.tool_call ELSE m.dict

\* tool_call.get("name"): None when the key is missing
ToolName(tc) == IF tc.name = Absent THEN "None" ELSE tc.name

\* tool_call.get("arguments", tool_call.get("input", ""))
ToolArgs(tc) ==
    IF tc.arguments.kind # "absent" THEN tc.arguments
    ELSE IF tc.input.kind # "absent" THEN tc.input
    ELSE Scalar("")

\* next((t for t in tools if t.name == tool_name), None): index of the first
\* descriptor with that name, 0 for None
FindToolFirst(tool_name) == 1
FindTool(tool_name) ==
    IF \E i \in 1..Len(registry) : registry[i].name = tool_name
    THEN CHOOSE i \in 1..Len(registry) :
            /\ registry[i].name = tool_name
            /\ \A j \in 1..(i - 1) : registry[j].name # tool_name
    ELSE 0

\* The tools list after next((t for t in tools if t.name == tool_name), None):
\* the generator reads the list and leaves it as it was.
ToolsAfterLookupPops(reg, tool_name) ==
    IF \E i \in 1..Len(reg) : reg[i].name = tool_name
    THEN LET i == CHOOSE k \in 1..Len(reg) :
                    /\ reg[k].name = tool_name
                    /\ \A j \in 1..(k - 1) : reg[j].name # tool_name
         IN  SubSeq(reg, 1, i - 1) \o SubSeq(reg, i + 1, Len(reg))
    ELSE reg
ToolsAfterLookup(reg, tool_name) == reg

\* tool.func(tool_args): how the tool body is entered
Invocation(tool_name, tool_args) ==
    [tool |-> tool_name, positional |-> tool_args, keywords |-> NoArg]

\* Texts appended by the loop.
ResultText(tool_name) == <<"result of ", tool_name>>
ErrorText(tool_name, cause) == <<"Error executing tool ", tool_name, ": ", cause>>
NotFoundText(tool_name) == <<"Tool '", tool_name, "' not found.">>

\* What the last message produced by the agent invocation can be (id filled
\* in when it is produced).
GatewayMessages ==
    { AIMessage(0, <<"final">>),
      AIToolCallAttr(0, Dict("guest_info_retriever", Scalar("Tesla"), NoArg)),
      AIDictContent(0, Dict("web_search", Mapping("__arg1", "Tesla"), NoArg)),
      AIToolCallAttr(0, Dict("get_hub_stats", NoArg, Mapping("author", "x"))),
      AIDictContent(0, Dict("Web_Search", NoArg, NoArg)),
      AIDictContent(0, Dict(Absent, Scalar("Tesla"), NoArg)) }

\* What the graph emits before its last message: an assistant message with
\* tool_calls (plural; content "") and the ToolNode's tool message. Neither
\* has a tool_call attribute or a mapping as content.
IntermediateMessages ==
    { AIMessage(0, <<"">>),
      [type |-> "tool", id |-> 0, tool_call |-> NoDict, text |-> <<"tool output">>,
       dict |-> NoDict] }

\* response["messages"] beyond the context: 1..MaxProduced messages, the
\* first of them an assistant message whenever the graph went through tools.
ProducedShapes ==
    UNION { { pre \o <<m>> : pre \in { p \in [1..(k - 1) -> IntermediateMessages] :
                                           k > 1 => p[1] = AIMessage(0, <<"">>) },
                             m \in GatewayMessages } : k \in 1..MaxProduced }
Stamp(seq, base) == [i \in 1..Len(seq) |-> [seq[i] EXCEPT !.id = base + i - 1]]

\* Input histories: alternating turns ending in a human turn.
InputLens == {1} \cup ((ROLLING_MEMORY_WINDOW - 1)..(ROLLING_MEMORY_WINDOW + MaxOver))
InputHistory(n) ==
    [i \in 1..n |-> IF (n - i) % 2 = 0 THEN HumanMessage(i, <<"question">>)
                                       ELSE AIMessage(i, <<"answer">>)]

NoPending == [tool |-> Absent, requested |-> Absent, args |-> NoArg]

gatewayCalls == Len(gatewayLog)
toolCalls == Len(toolLog)
Last(s) == s[Len(s)]

\* The module has been imported: tools is the list of app.py line 28.
RegistryLoaded ==
    /\ registry = BuildRegistry(tools)
    /\ regPc = "built"
    /\ resolved = [name |-> Absent, index |-> 0]

\* No concurrent callers, no chat handler.
NoSessions == sessions = <<>>
NoUi ==
    /\ ui = "none" /\ langfuse = FALSE /\ session_state = <<>> /\ shown = <<>>
    /\ invoked = <<>> /\ prompts = 0 /\ handlerRaised = FALSE

\* No call of run_evaluation under way.
NoSummary ==
    [total_tests |-> 0, successful_runs |-> 0, success_rate |-> [num |-> 0, den |-> 1],
     average_execution_time |-> [num |-> 0, den |-> 1], total_execution_time |-> 0,
     results |-> <<>>]
NoEval ==
    /\ evalPc = "idle" /\ test_queries = <<>> /\ results = <<>> /\ total_time = 0
    /\ successful_runs = 0 /\ traced = <<>> /\ evaluation_summary = NoSummary

\* No call of run_agent_with_tools under way.
NoRun ==
    /\ entry = "none" /\ input0 = <<>> /\ messages = <<>> /\ max_steps = 0
    /\ step = 0 /\ pc = "idle" /\ pending = NoPending /\ result = <<>>
    /\ context = <<>> /\ gatewayLog = <<>> /\ toolLog = <<>> /\ nextId = 1

Init ==
    /\ entry \in {"app", "core"}
    /\ \E n \in InputLens : input0 = InputHistory(n)
    /\ messages = input0
    /\ max_steps \in 1..MaxSteps
    /\ (entry = "core" => max_steps = 1)
    /\ step = 0
    /\ pc = "loop"
    /\ pending = NoPending
    /\ result = <<>>
    /\ context = <<>>
    /\ gatewayLog = <<>>
    /\ toolLog = <<>>
    /\ nextId = Len(input0) + 1
    /\ RegistryLoaded
    /\ AGENT_INSTANCE = 0 /\ builds = 0
    /\ NoSessions
    /\ NoUi
    /\ NoEval

\* for _ in range(max_steps): one more iteration completed
NextStepSkip(s) == s + 2
NextStep(s) == s + 1

\* return messages
ReturnedWindow(msgs) == SliceLast(msgs, ROLLING_MEMORY_WINDOW)
Returned(msgs) == msgs

\* app.py lines 64-94, 102-106: the gateway call returns, the new messages
\* are appended, the last message is inspected.
Invoke ==
    /\ entry = "app" /\ pc = "loop" /\ step < max_steps
    /\ \E shape \in ProducedShapes :
        LET produced == Stamp(shape, nextId)
            ctx == Window(messages)
            response == ctx \o produced
            new_msgs == NewMsgs(response, messages)
            extended == messages \o new_msgs
            last_msg == Last(extended)
            tool_call == ToolCallOf(last_msg)
            tool_name == ToolName(tool_call)
            tool_args == ToolArgs(tool_call)
        IN  /\ context' = ctx
            /\ gatewayLog' = Append(gatewayLog, [ok |-> TRUE, produced |-> produced])
            /\ IF IsToolCall(last_msg)
               THEN IF FindTool(tool_name) # 0
                    THEN /\ messages' = extended
                         /\ pending' = [tool |-> registry[FindTool(tool_name)].name,
                                      requested |-> tool_name, args |-> tool_args]
                         /\ pc' = "tool"
                         /\ nextId' = nextId + Len(produced)
                         /\ UNCHANGED <<step, result>>
                    ELSE /\ messages' = Append(extended,
                                AIMessage(nextId + Len(produced), NotFoundText(tool_name)))
                         /\ nextId' = nextId + Len(produced) + 1
                         /\ step' = NextStep(step)
                         /\ pc' = "loop"
                         /\ UNCHANGED <<pending, result>>
               ELSE /\ messages' = extended
                    /\ result' = Returned(extended)
                    /\ pc' = "returned"
                    /\ nextId' = nextId + Len(produced)
                    /\ UNCHANGED <<step, pending>>
            /\ registry' = IF IsToolCall(last_msg)
                           THEN ToolsAfterLookup(registry, tool_name)
                           ELSE registry
    /\ UNCHANGED <<entry, input0, max_steps, toolLog>>
    /\ UNCHANGED <<regPc, resolved, agentVars, sessions, uiVars, evalVars>>

\* app.py line 64: alfred.invoke raises; nothing in the loop catches it.
InvokeRaisesAbsorbed ==
    /\ entry = "app" /\ pc = "loop" /\ step < max_steps
    /\ context' = Window(messages)
    /\ gatewayLog' = Append(gatewayLog, [ok |-> FALSE, produced |-> <<>>])
    /\ messages' = Append(messages, AIMessage(nextId, <<"Error: ", "boom">>))
    /\ nextId' = nextId + 1
    /\ step' = NextStep(step)
    /\ pc' = "loop"
    /\ UNCHANGED <<entry, input0, max_steps, pending, result, toolLog>>
    /\ UNCHANGED <<regVars, agentVars, sessions, uiVars, evalVars>>
InvokeRaises ==
    /\ entry = "app" /\ pc = "loop" /\ step < max_steps
    /\ context' = Window(messages)
    /\ gatewayLog' = Append(gatewayLog, [ok |-> FALSE, produced |-> <<>>])
    /\ pc' = "raised"
    /\ UNCHANGED <<entry, input0, messages, max_steps, step, pending, result,
                   toolLog, nextId>>
    /\ UNCHANGED <<regVars, agentVars, sessions, uiVars, evalVars>>

\* What list_models does inside get_hub_stats: yields a model, yields none,
\* or raises.
HubLookups == {"model", "none", "raises"}

\* tools.py get_hub_stats(author): every exception of the lookup is caught
\* and turned into the returned string. The author is rendered by its key
\* (Absent for a plain string) and value.
get_hub_statsUncaught(author, lookup) ==
    IF lookup = "model"
    THEN [raised |-> FALSE, cause |-> Absent,
          text |-> <<"The most downloaded model by ", author.key, author.val,
                     " is ", "model.id", " with ", "model.downloads", " downloads.">>]
    ELSE IF lookup = "none"
    THEN [raised |-> FALSE, cause |-> Absent,
          text |-> <<"No models found for author ", author.key, author.val, ".">>]
    ELSE [raised |-> TRUE, cause |-> "hub down", text |-> <<>>]
get_hub_stats(author, lookup) ==
    IF lookup = "model"
    THEN [raised |-> FALSE, cause |-> Absent,
          text |-> <<"The most downloaded model by ", author.key, author.val,
                     " is ", "model.id", " with ", "model.downloads", " downloads.">>]
    ELSE IF lookup = "none"
    THEN [raised |-> FALSE, cause |-> Absent,
          text |-> <<"No models found for author ", author.key, author.val, ".">>]
    ELSE [raised |-> FALSE, cause |-> Absent,
          text |-> <<"Error fetching models for ", author.key, author.val,
                     ": ", "hub down">>]

\* What entering a tool body can lead to: get_hub_stats as above; the
\* retriever and the web search return a string or raise.
ToolOutcomes(tool_name, tool_args) ==
    IF tool_name = "get_hub_stats"
    THEN { [body |-> get_hub_stats(tool_args, l), lookup |-> l] : l \in HubLookups }
    ELSE { [body |-> [raised |-> FALSE, cause |-> Absent, text |-> ResultText(tool_name)],
            lookup |-> Absent],
           [body |-> [raised |-> TRUE, cause |-> "boom", text |-> <<>>],
            lookup |-> Absent] }

\* app.py lines 98-99: the tool body returns a string.
ToolReturns ==
    /\ entry = "app" /\ pc = "tool"
    /\ \E o \in ToolOutcomes(pending.tool, pending.args) :
        /\ ~o.body.raised
        /\ toolLog' = Append(toolLog, [call |-> Invocation(pending.tool, pending.args),
                                     request |-> pending.args, raised |-> FALSE,
                                     lookup |-> o.lookup, returned |-> o.body.text])
        /\ messages' = Append(messages, AIMessage(nextId, o.body.text))
    /\ nextId' = nextId + 1
    /\ step' = NextStep(step)
    /\ pending' = NoPending
    /\ pc' = "loop"
    /\ UNCHANGED <<entry, input0, max_steps, result, context, gatewayLog>>
    /\ UNCHANGED <<regVars, agentVars, sessions, uiVars, evalVars>>

\* app.py lines 100-101: the tool body raises; the loop appends the error text.
ToolRaisesPropagates ==
    /\ entry = "app" /\ pc = "tool"
    /\ \E o \in ToolOutcomes(pending.tool, pending.args) :
        /\ o.body.raised
        /\ toolLog' = Append(toolLog, [call |-> Invocation(pending.tool, pending.args),
                                     request |-> pending.args, raised |-> TRUE,
                                     lookup |-> o.lookup, returned |-> o.body.text])
    /\ pc' = "raised"
    /\ UNCHANGED <<entry, input0, messages, max_steps, step, pending, result, context,
                   gatewayLog, nextId>>
    /\ UNCHANGED <<regVars, agentVars, sessions, uiVars, evalVars>>
ToolRaises ==
    /\ entry = "app" /\ pc = "tool"
    /\ \E o \in ToolOutcomes(pending.tool, pending.args) :
        /\ o.body.raised
        /\ toolLog' = Append(toolLog, [call |-> Invocation(pending.tool, pending.args),
                                     request |-> pending.args, raised |-> TRUE,
                                     lookup |-> o.lookup, returned |-> o.body.text])
        /\ messages' = Append(messages,
                             AIMessage(nextId, ErrorText(pending.requested, o.body.cause)))
    /\ nextId' = nextId + 1
    /\ step' = NextStep(step)
    /\ pending' = NoPending
    /\ pc' = "loop"
    /\ UNCHANGED <<entry, input0, max_steps, result, context, gatewayLog>>
    /\ UNCHANGED <<regVars, agentVars, sessions, uiVars, evalVars>>

\* app.py lines 63, 107: range(max_steps) is used up; return messages.
LoopExhausted ==
    /\ entry = "app" /\ pc = "loop" /\ step >= max_steps
    /\ result' = Returned(messages)
    /\ pc' = "returned"
    /\ UNCHANGED <<entry, input0, messages, max_steps, step, pending, context,
                   gatewayLog, toolLog, nextId>>
    /\ UNCHANGED <<regVars, agentVars, sessions, uiVars, evalVars>>

\* core/app.py lines 59-64, get_agent() run without interruption: build the
\* graph when _AGENT_INSTANCE is None, return _AGENT_INSTANCE.
get_agent(instance, nbuilds) ==
    IF instance = 0
    THEN [instance |-> nbuilds + 1, builds |-> nbuilds + 1]
    ELSE [instance |-> instance, builds |-> nbuilds]

\* core/app.py lines 76-83: one agent.invoke on the window; its messages are
\* returned; the caller's list is not touched.
CoreInvoke ==
    /\ entry = "core" /\ pc = "loop"
    /\ \E shape \in ProducedShapes :
        LET produced == Stamp(shape, nextId)
            ctx == Window(messages)
            response == ctx \o produced
        IN  /\ context' = ctx
            /\ gatewayLog' = Append(gatewayLog, [ok |-> TRUE, produced |-> produced])
            /\ result' = response
            /\ nextId' = nextId + Len(produced)
    /\ pc' = "returned"
    /\ step' = NextStep(step)
    /\ AGENT_INSTANCE' = get_agent(AGENT_INSTANCE, builds).instance
    /\ builds' = get_agent(AGENT_INSTANCE, builds).builds
    /\ UNCHANGED <<entry, input0, messages, max_steps, pending, toolLog>>
    /\ UNCHANGED <<regVars, sessions, uiVars, evalVars>>

\* core/app.py line 80: agent.invoke raises.
CoreInvokeRaises ==
    /\ entry = "core" /\ pc = "loop"
    /\ context' = Window(messages)
    /\ gatewayLog' = Append(gatewayLog, [ok |-> FALSE, produced |-> <<>>])
    /\ pc' = "raised"
    /\ UNCHANGED <<entry, input0, messages, max_steps, step, pending, result,
                   toolLog, nextId>>
    /\ AGENT_INSTANCE' = get_agent(AGENT_INSTANCE, builds).instance
    /\ builds' = get_agent(AGENT_INSTANCE, builds).builds
    /\ UNCHANGED <<regVars, sessions, uiVars, evalVars>>

Next ==
    \/ Invoke
    \/ InvokeRaises
    \/ ToolReturns
    \/ ToolRaises
    \/ LoopExhausted
    \/ CoreInvoke
    \/ CoreInvokeRaises

Spec == Init /\ [][Next]_vars

\* The run without gateway failures: the interpreter keeps executing the
\* loop, so a step that can be taken is eventually taken.
NextReturning ==
    \/ Invoke
    \/ ToolReturns
    \/ ToolRaises
    \/ LoopExhausted
    \/ CoreInvoke

FairSpec == Init /\ [][NextReturning]_vars /\ WF_vars(NextReturning)

-----------------------------------------------------------------------------
\* Building the tools list and looking names up in it.

Descriptors ==
    [name : {"guest_info_retriever", "web_search"},
     func : {"extract_text", "web_search"}]
DescriptorLists == UNION { [1..k -> Descriptors] : k \in 0..MaxTools }
LookupNames == {"guest_info_retriever", "web_search", "Web_Search"}

RegistryInit ==
    /\ NoRun
    /\ registry = <<>> /\ regPc = "start"
    /\ resolved = [name |-> Absent, index |-> 0]
    /\ AGENT_INSTANCE = 0 /\ builds = 0
    /\ NoSessions
    /\ NoUi
    /\ NoEval

\* app.py line 28: tools = [...]; the list is taken as written.
BuildTools ==
    /\ regPc = "start"
    /\ \E descriptors \in DescriptorLists : registry' = BuildRegistry(descriptors)
    /\ regPc' = "built"
    /\ UNCHANGED <<resolved, runVars, agentVars, sessions, uiVars, evalVars>>

\* app.py line 94: next((t for t in tools if t.name == tool_name), None)
Lookup ==
    /\ regPc = "built"
    /\ \E tool_name \in LookupNames :
         resolved' = [name |-> tool_name, index |-> FindTool(tool_name)]
    /\ UNCHANGED <<registry, regPc, runVars, agentVars, sessions, uiVars, evalVars>>

RegistryNext ==
    \/ BuildTools
    \/ Lookup

RegistrySpec == RegistryInit /\ [][RegistryNext]_vars

-----------------------------------------------------------------------------
\* Two callers of core/app.py run_agent_with_tools, each with its own
\* conversation, interleaved statement by statement.

Sessions == {1, 2}
SessionLens == {1, ROLLING_MEMORY_WINDOW + 1}

\* The turns of caller s carry serial numbers s * 1000 + ...
SessionInput(s, n) ==
    [i \in 1..n |-> [InputHistory(n)[i] EXCEPT !.id = s * 1000 + i]]
SessionProduced(s, shape) == Stamp(shape, s * 1000 + 500)

SessionsInit ==
    /\ NoRun
    /\ RegistryLoaded
    /\ AGENT_INSTANCE = 0 /\ builds = 0
    /\ \E lens \in [Sessions -> SessionLens] :
         sessions = [s \in Sessions |->
                       [pc |-> "start", input |-> SessionInput(s, lens[s]),
                        agent |-> 0, context |-> <<>>, produced |-> <<>>,
                        calls |-> 0, result |-> <<>>]]
    /\ NoUi
    /\ NoEval

\* core/app.py line 62: if _AGENT_INSTANCE is None
GetAgentTest(s) ==
    /\ sessions[s].pc = "start"
    /\ sessions' = [sessions EXCEPT
                      ![s].pc = IF AGENT_INSTANCE = 0 THEN "build" ELSE "return"]
    /\ UNCHANGED <<runVars, regVars, agentVars, uiVars, evalVars>>

\* core/app.py line 63: _AGENT_INSTANCE = build_agent_graph()
GetAgentBuild(s) ==
    /\ sessions[s].pc = "build"
    /\ builds' = builds + 1
    /\ AGENT_INSTANCE' = builds + 1
    /\ sessions' = [sessions EXCEPT ![s].pc = "return"]
    /\ UNCHANGED <<runVars, regVars, uiVars, evalVars>>

\* core/app.py lines 64, 76: agent = the returned _AGENT_INSTANCE
GetAgentReturn(s) ==
    /\ sessions[s].pc = "return"
    /\ sessions' = [sessions EXCEPT ![s].pc = "invoke", ![s].agent = AGENT_INSTANCE]
    /\ UNCHANGED <<runVars, regVars, agentVars, uiVars, evalVars>>

\* core/app.py lines 80-83: agent.invoke on the caller's own window; the
\* compiled graph keeps nothing between invocations.
SessionInvoke(s) ==
    /\ sessions[s].pc = "invoke"
    /\ \E shape \in ProducedShapes :
        LET ctx == Window(sessions[s].input)
            produced == SessionProduced(s, shape)
        IN  sessions' = [sessions EXCEPT
                           ![s].pc = "returned", ![s].context = ctx,
                           ![s].produced = produced, ![s].calls = @ + 1,
                           ![s].result = ctx \o produced]
    /\ UNCHANGED <<runVars, regVars, agentVars, uiVars, evalVars>>

\* core/app.py line 80: agent.invoke raises.
SessionInvokeRaises(s) ==
    /\ sessions[s].pc = "invoke"
    /\ sessions' = [sessions EXCEPT
                      ![s].pc = "raised", ![s].context = Window(sessions[s].input),
                      ![s].calls = @ + 1]
    /\ UNCHANGED <<runVars, regVars, agentVars, uiVars, evalVars>>

SessionsNext ==
    \/ \E s \in Sessions : GetAgentTest(s)
    \/ \E s \in Sessions : GetAgentBuild(s)
    \/ \E s \in Sessions : GetAgentReturn(s)
    \/ \E s \in Sessions : SessionInvoke(s)
    \/ \E s \in Sessions : SessionInvokeRaises(s)

SessionsSpec == SessionsInit /\ [][SessionsNext]_vars

-----------------------------------------------------------------------------
\* The chat input handlers of streamlit_app.py and of the chat mode of
\* streamlit_app_with_evaluation.py, one rerun of the script per prompt.

Causes == {"rate limit", "connection reset"}
Apology == <<"I apologize, but I encountered an error. Please try again.">>
ErrorDisplay(cause) == <<"Error: ", cause>>

\* The compiled graph ends on an assistant message without tool calls.
FinalShapes == { shape \in ProducedShapes : Last(shape) = AIMessage(0, <<"final">>) }

\* Durations of an agent run measured with time.time(), in ticks.
ExecutionTimes == {1, 2}
NoTime == [present |-> FALSE, val |-> 0]
Time(t) == [present |-> TRUE, val |-> t]

\* What agent.invoke does for one prompt: it raises, or it returns its
\* context followed by the messages it produced.
AgentOutcomes(base) ==
    { [raised |-> FALSE, cause |-> Absent, produced |-> Stamp(shape, base),
       elapsed |-> t] : shape \in FinalShapes, t \in ExecutionTimes }
    \cup { [raised |-> TRUE, cause |-> c, produced |-> <<>>, elapsed |-> 0] :
             c \in Causes }

Markdown(k, t) == [widget |-> "markdown", prompt |-> k, text |-> t]
ErrorBox(k, t) == [widget |-> "error", prompt |-> k, text |-> t]

\* A call left by the exception of the agent run (no dict is returned).
Propagated(outcome, ctx) ==
    [raised |-> TRUE, response |-> <<>>, trace_id |-> Absent, execution_time |-> NoTime,
     total_messages |-> 0, success |-> FALSE, error |-> outcome.cause, context |-> ctx]

\* evaluation.py lines 133-153 and 86-131: both paths run the agent on
\* [HumanMessage(user_input)] inside try/except Exception and return a dict
\* (raised: whether the call was left by an exception; context: what the
\* agent was given).
run_without_tracing(user_input, outcome) ==
    LET msgs == <<HumanMessage(0, user_input)>>
        response_messages == Window(msgs) \o outcome.produced
    IN  IF outcome.raised
        THEN [raised |-> FALSE, response |-> ErrorDisplay(outcome.cause),
              trace_id |-> Absent, execution_time |-> NoTime,
              total_messages |-> 0, success |-> FALSE, error |-> outcome.cause,
              context |-> Window(msgs)]
        ELSE [raised |-> FALSE, response |-> Last(response_messages).text,
              trace_id |-> Absent, execution_time |-> Time(outcome.elapsed),
              total_messages |-> Len(response_messages), success |-> TRUE,
              error |-> Absent, context |-> Window(msgs)]

trace_conversationUncaught(user_input, lf, outcome) ==
    IF outcome.raised
    THEN Propagated(outcome, <<HumanMessage(0, user_input)>>)
    ELSE run_without_tracing(user_input, outcome)
trace_conversation(user_input, lf, outcome) ==
    LET msgs == <<HumanMessage(0, user_input)>>
        response_messages == msgs \o outcome.produced
    IN  IF ~lf
        THEN run_without_tracing(user_input, outcome)
        ELSE IF outcome.raised
        THEN [raised |-> FALSE, response |-> ErrorDisplay(outcome.cause),
              trace_id |-> "error-no-trace", execution_time |-> NoTime,
              total_messages |-> 0, success |-> FALSE, error |-> outcome.cause,
              context |-> msgs]
        ELSE [raised |-> FALSE, response |-> Last(response_messages).text,
              trace_id |-> "trace", execution_time |-> Time(outcome.elapsed),
              total_messages |-> Len(response_messages), success |-> TRUE,
              error |-> Absent, context |-> msgs]

UiInit ==
    /\ NoRun
    /\ RegistryLoaded
    /\ AGENT_INSTANCE = 0 /\ builds = 0
    /\ NoSessions
    /\ \/ ui = "chat" /\ langfuse = FALSE
       \/ ui = "evaluation" /\ langfuse \in BOOLEAN
    /\ session_state = <<>> /\ shown = <<>> /\ invoked = <<>>
    /\ prompts = 0 /\ handlerRaised = FALSE
    /\ NoEval

\* streamlit_app.py lines 22-45.
ChatSubmit ==
    /\ ui = "chat" /\ prompts < MaxPrompts
    /\ \E outcome \in AgentOutcomes(100 * (prompts + 1) + 2) :
        LET k == prompts + 1
            prompt == <<"question">>
            history == Append(session_state, HumanMessage(100 * k + 1, prompt))
            agent_response == history \o outcome.produced
        IN  /\ invoked' = Append(invoked, [context |-> history, raised |-> outcome.raised,
                                           cause |-> outcome.cause])
            /\ IF outcome.raised
               THEN /\ shown' = shown \o << Markdown(k, prompt),
                                            ErrorBox(k, ErrorDisplay(outcome.cause)),
                                            Markdown(k, Apology) >>
                    /\ session_state' = history
               ELSE /\ shown' = shown \o << Markdown(k, prompt),
                                            Markdown(k, Last(agent_response).text) >>
                    /\ session_state' = agent_response
    /\ prompts' = prompts + 1
    /\ UNCHANGED <<ui, langfuse, handlerRaised>>
    /\ UNCHANGED <<runVars, regVars, agentVars, sessions, evalVars>>

\* streamlit_app_with_evaluation.py lines 86-89: the reply joins the session
\* history only if result.get("success").
HistoryAfterAlways(history, res, id) == Append(history, AIMessage(id, res.response))
HistoryAfter(history, res, id) ==
    IF res.success THEN Append(history, AIMessage(id, res.response)) ELSE history

\* streamlit_app_with_evaluation.py lines 60-96; the except clause is for a
\* trace_conversation call left by an exception.
EvalChatSubmit ==
    /\ ui = "evaluation" /\ prompts < MaxPrompts
    /\ \E outcome \in AgentOutcomes(100 * (prompts + 1) + 2) :
        LET k == prompts + 1
            prompt == <<"question">>
            history == Append(session_state, HumanMessage(100 * k + 1, prompt))
            res == trace_conversation(prompt, langfuse, outcome)
        IN  /\ invoked' = Append(invoked, [context |-> res.context, raised |-> outcome.raised,
                                           cause |-> outcome.cause])
            /\ shown' = IF res.raised
                        THEN shown \o << Markdown(k, prompt),
                                         ErrorBox(k, ErrorDisplay(res.error)),
                                         Markdown(k, Apology) >>
                        ELSE shown \o << Markdown(k, prompt), Markdown(k, res.response) >>
            /\ session_state' = IF res.raised THEN history
                                ELSE HistoryAfter(history, res, 100 * k + 2)
    /\ prompts' = prompts + 1
    /\ AGENT_INSTANCE' = IF langfuse THEN AGENT_INSTANCE
                         ELSE get_agent(AGENT_INSTANCE, builds).instance
    /\ builds' = IF langfuse THEN builds ELSE get_agent(AGENT_INSTANCE, builds).builds
    /\ UNCHANGED <<ui, langfuse, handlerRaised>>
    /\ UNCHANGED <<runVars, regVars, sessions, evalVars>>

UiNext ==
    \/ ChatSubmit
    \/ EvalChatSubmit

UiSpec == UiInit /\ [][UiNext]_vars

-----------------------------------------------------------------------------
\* One call of run_evaluation(evaluator, test_queries), evaluation.py lines
\* 201-252.

Queries == { <<"q1">>, <<"q2">> }
QueryLists == UNION { [1..k -> Queries] : k \in 0..MaxQueries }
None == [none |-> TRUE, list |-> <<>>]
QueryArgs == {None} \cup { [none |-> FALSE, list |-> l] : l \in QueryLists }

\* lines 204-209: the default list stands in for None (not for an empty list).
DefaultQueries ==
    << <<"Tell me about Dr. Nikola Tesla">>,
       <<"What are the latest developments in wireless energy?">>,
       <<"Help me prepare for a conversation with Dr. Tesla about tech trends">> >>
QueriesOf(arg) == IF arg.none THEN DefaultQueries ELSE arg.list

\* line 228: result.get("execution_time", 0)
ExecutionTimeOf(res) == IF res.execution_time.present THEN res.execution_time.val ELSE 0

\* a / b on numbers: the quotient, or ZeroDivisionError
Divide(a, b) ==
    IF b = 0 THEN [error |-> TRUE, num |-> 0, den |-> 1]
    ELSE [error |-> FALSE, num |-> a, den |-> b]

\* lines 234-235: total / len(test_queries) if test_queries else 0
RateUnguarded(total, queries) == Divide(total, Len(queries))
Rate(total, queries) ==
    IF queries # <<>> THEN Divide(total, Len(queries))
    ELSE [error |-> FALSE, num |-> 0, den |-> 1]

EvalInit ==
    /\ NoRun
    /\ RegistryLoaded
    /\ AGENT_INSTANCE = 0 /\ builds = 0
    /\ NoSessions
    /\ ui = "none" /\ langfuse \in BOOLEAN
    /\ session_state = <<>> /\ shown = <<>> /\ invoked = <<>>
    /\ prompts = 0 /\ handlerRaised = FALSE
    /\ evalPc = "loop"
    /\ \E arg \in QueryArgs : test_queries = QueriesOf(arg)
    /\ results = <<>> /\ total_time = 0 /\ successful_runs = 0
    /\ traced = <<>>
    /\ evaluation_summary = NoSummary

\* lines 217-231: one iteration of the for loop.
EvalStep ==
    /\ evalPc = "loop" /\ Len(traced) < Len(test_queries)
    /\ \E outcome \in AgentOutcomes(1) :
        LET query == test_queries[Len(traced) + 1]
            res == trace_conversation(query, langfuse, outcome)
        IN  /\ traced' = Append(traced, [query |-> query, outcome |-> outcome])
            /\ IF res.raised
               THEN /\ evalPc' = "raised"
                    /\ UNCHANGED <<results, total_time, successful_runs>>
               ELSE /\ evalPc' = "loop"
                    /\ results' = Append(results, res)
                    /\ total_time' = total_time + ExecutionTimeOf(res)
                    /\ successful_runs' = IF res.success THEN successful_runs + 1
                                          ELSE successful_runs
    /\ AGENT_INSTANCE' = IF langfuse THEN AGENT_INSTANCE
                         ELSE get_agent(AGENT_INSTANCE, builds).instance
    /\ builds' = IF langfuse THEN builds ELSE get_agent(AGENT_INSTANCE, builds).builds
    /\ UNCHANGED <<test_queries, evaluation_summary>>
    /\ UNCHANGED <<runVars, regVars, sessions, uiVars>>

\* lines 233-252: the metrics and the returned summary.
EvalReturn ==
    /\ evalPc = "loop" /\ Len(traced) = Len(test_queries)
    /\ LET avg_time == Rate(total_time, test_queries)
           success_rate == Rate(successful_runs, test_queries)
       IN  IF avg_time.error \/ success_rate.error
           THEN /\ evalPc' = "raised"
                /\ UNCHANGED evaluation_summary
           ELSE /\ evalPc' = "returned"
                /\ evaluation_summary' =
                     [total_tests |-> Len(test_queries),
                      successful_runs |-> successful_runs,
                      success_rate |-> [num |-> success_rate.num, den |-> success_rate.den],
                      average_execution_time |-> [num |-> avg_time.num, den |-> avg_time.den],
                      total_execution_time |-> total_time,
                      results |-> results]
    /\ UNCHANGED <<test_queries, results, total_time, successful_runs, traced>>
    /\ UNCHANGED <<runVars, regVars, agentVars, sessions, uiVars>>

EvalNext ==
    \/ EvalStep
    \/ EvalReturn

EvalSpec == EvalInit /\ [][EvalNext]_vars

-----------------------------------------------------------------------------
\* Vocabulary of the properties.

Min(a, b) == IF a < b THEN a ELSE b
appended == Len(result) - Len(input0)

\* The last message of the i-th gateway response.
Answer(i) == Last(gatewayLog[i].produced)

\* The i-th gateway call returned exactly one message.
Single(i) == gatewayLog[i].ok /\ Len(gatewayLog[i].produced) = 1

Registered(name) == \E i \in 1..Len(tools) : tools[i].name = name

RequestsKnown(m) == IsToolCall(m) /\ Registered(ToolName(ToolCallOf(m)))
RequestsUnknown(m) == IsToolCall(m) /\ ~Registered(ToolName(ToolCallOf(m)))

\* Serial numbers of the messages the gateway produced.
GatewayIds ==
    UNION { { gatewayLog[i].produced[j].id : j \in 1..Len(gatewayLog[i].produced) } :
            i \in 1..Len(gatewayLog) }

-----------------------------------------------------------------------------
\* C1: with max_steps >= 1, a non-empty conversation ending in a human turn
\* and a gateway that answers every call (final text, known tool, unknown
\* tool, tool body raising), the run of app.py eventually returns, and the
\* returned conversation is at least as long as the input.
C1_ReturnsAtLeastInput ==
    <>(entry = "app" => (pc = "returned" /\ Len(result) >= Len(input0)))

C1_Witness ==
    /\ entry = "app" /\ pc = "returned"
    /\ max_steps >= 2 /\ gatewayCalls = max_steps
    /\ \E i \in 1..Len(toolLog) : toolLog[i].raised
    /\ Len(result) > Len(input0)

\* C2: if the gateway returns final text on its first call, the run makes
\* exactly 1 gateway call and 0 tool calls and appends exactly that one
\* assistant turn.
C2_FinalOnFirstCall ==
    (/\ entry = "app" /\ pc = "returned"
     /\ gatewayCalls >= 1 /\ Single(1) /\ ~IsToolCall(Answer(1)))
    => (/\ gatewayCalls = 1
        /\ toolCalls = 0
        /\ result = input0 \o gatewayLog[1].produced)

\* C3: if the gateway requests a known tool once (the tool returns) and then
\* returns final text, the run makes exactly 2 gateway calls and 1 tool call
\* and appends the request turn, one successful tool-result turn and the
\* final assistant turn, in that order.
C3_OneToolThenFinal ==
    (/\ entry = "app" /\ pc = "returned"
     /\ gatewayCalls >= 2
     /\ Single(1) /\ RequestsKnown(Answer(1))
     /\ toolCalls >= 1 /\ ~toolLog[1].raised
     /\ Single(2) /\ ~IsToolCall(Answer(2)))
    => (/\ gatewayCalls = 2
        /\ toolCalls = 1
        /\ appended = 3
        /\ SubSeq(result, 1, Len(input0)) = input0
        /\ result[Len(input0) + 1] = Answer(1)
        /\ result[Len(input0) + 2].type = "ai"
        /\ result[Len(input0) + 2].text = toolLog[1].returned
        /\ result[Len(input0) + 3] = Answer(2))

\* C4: when the gateway's response requests a tool name that no registered
\* tool has, the run does not raise: it appends the turn with the text
\* "Tool '<name>' not found", does not stop, and goes on to the next
\* iteration.
C4_UnknownToolAbsorbed ==
    [][ (/\ entry = "app"
         /\ Len(gatewayLog') = Len(gatewayLog) + 1
         /\ Last(gatewayLog').ok
         /\ RequestsUnknown(Last(Last(gatewayLog').produced)))
        => (/\ pc' = "loop"
            /\ step' = step + 1
            /\ Last(messages').type = "ai"
            /\ ~IsToolCall(Last(messages'))
            /\ Last(messages').text =
                 NotFoundText(ToolName(ToolCallOf(Last(Last(gatewayLog').produced)))))
      ]_vars

\* The case of C5: every gateway call returned one request for a registered
\* tool whose body raised on every call.
AlwaysRaisingTool ==
    /\ entry = "app" /\ pc = "returned"
    /\ gatewayCalls >= 1
    /\ \A i \in 1..Len(gatewayLog) : Single(i) /\ RequestsKnown(Answer(i))
    /\ \A i \in 1..Len(toolLog) : toolLog[i].raised

\* The conversation fits the window at every gateway call of the run.
FitsWindow == Len(input0) + 2 * (max_steps - 1) <= ROLLING_MEMORY_WINDOW

C6_ArgumentsNormalized ==
    \A i \in 1..Len(toolLog) :
        LET r == toolLog[i].request
            c == toolLog[i].call
        IN  /\ (r.kind = "mapping" /\ r.key = "__arg1")
                 => (c.positional = Scalar(r.val) /\ c.keywords = NoArg)
            /\ (r.kind = "mapping" /\ r.key # "__arg1")
                 => (c.positional = NoArg /\ c.keywords = r)
            /\ (r.kind = "scalar")
                 => (c.positional = r /\ c.keywords = NoArg)

\* C7: on every gateway call the context passed is exactly the last
\* min(len(conversation), 50) turns of the conversation as it stands at that
\* call, in order.
C7_ContextIsWindow ==
    [][ Len(gatewayLog') = Len(gatewayLog) + 1
        => (/\ Len(context') = Min(Len(messages), ROLLING_MEMORY_WINDOW)
            /\ \A i \in 1..Len(context') :
                 context'[i] = messages[Len(messages) - Len(context') + i])
      ]_vars

C7_Witness ==
    /\ entry = "app" /\ gatewayCalls >= 2
    /\ Len(context) = ROLLING_MEMORY_WINDOW
    /\ context[1].id > 1
    /\ Last(context).id > Len(input0)

\* C8: the returned conversation has the whole input history as an
\* unchanged prefix, for histories of any length and both entry points.
C8_InputIsPrefix ==
    pc = "returned" =>
        (/\ Len(result) >= Len(input0)
         /\ SubSeq(result, 1, Len(input0)) = input0)

\* The two terminal states of C9.
FinalAnswerLast ==
    /\ Last(result).type = "ai"
    /\ ~IsToolCall(Last(result))
    /\ Last(result).id \in GatewayIds

BudgetExhausted ==
    /\ gatewayCalls = max_steps
    /\ \A i \in 1..Len(gatewayLog) : gatewayLog[i].ok /\ IsToolCall(Answer(i))
    /\ \/ IsToolCall(Last(result))
       \/ (Last(result).id > Len(input0) /\ Last(result).id \notin GatewayIds)

\* C9: whenever the run returns, exactly one of the two holds: the last
\* turn is a final answer, or max_steps gateway calls were made, each of
\* them a tool request, and the last turn is a tool request or tool result.
C9_TerminalStates ==
    (entry = "app" /\ pc = "returned") => (FinalAnswerLast # BudgetExhausted)

\* C10: a failing gateway call is not caught: the run is left by the
\* exception with no turn appended for the call, and afterwards there is no
\* further gateway call, tool call or appended turn.
C10_GatewayFailurePropagates ==
    [][ /\ (Len(gatewayLog') = Len(gatewayLog) + 1 /\ ~Last(gatewayLog').ok)
            => (pc' = "raised" /\ messages' = messages /\ toolLog' = toolLog)
        /\ (pc = "raised")
            => (pc' = "raised" /\ gatewayLog' = gatewayLog /\ toolLog' = toolLog
                /\ messages' = messages)
      ]_vars

C10_Witness ==
    /\ entry = "app" /\ pc = "raised"
    /\ gatewayCalls >= 2 /\ ~Last(gatewayLog).ok
    /\ toolCalls >= 1
    /\ Len(messages) = Len(input0) + 2

-----------------------------------------------------------------------------
\* The message test of app.py lines 81-83, written on the raw fields.
RawRequest(m) == m.tool_call.present \/ (m.dict.present /\ m.dict.name # Absent)
RawName(m) == IF m.tool_call.present THEN m.tool_call.name ELSE m.dict.name

\* Kinds of step of the run.
GatewayReturned == Len(gatewayLog') = Len(gatewayLog) + 1 /\ Last(gatewayLog').ok
ToolEntered == Len(toolLog') = Len(toolLog) + 1

\* C11: a failure raised by the body of a registered tool is caught and
\* becomes an appended turn with the text "Error executing tool <name>:
\* <cause>"; the run neither raises nor stops, and with budget left the
\* next step of the run is a gateway call.
C11_ToolFailureAbsorbed ==
    [][ /\ (ToolEntered /\ Last(toolLog').raised)
            => (/\ pc' = "loop"
                /\ Len(messages') = Len(messages) + 1
                /\ SubSeq(messages', 1, Len(messages)) = messages
                /\ Last(messages').type = "ai"
                /\ ~RawRequest(Last(messages'))
                /\ Last(messages').text =
                     <<"Error executing tool ", Last(toolLog').call.tool, ": ", "boom">>
                /\ gatewayLog' = gatewayLog)
        /\ (entry = "app" /\ pc = "loop" /\ step < max_steps)
            => Len(gatewayLog') = Len(gatewayLog) + 1
      ]_vars

C11_Witness ==
    /\ entry = "app" /\ toolCalls = 1 /\ toolLog[1].raised
    /\ gatewayCalls = 2 /\ Last(gatewayLog).ok

\* C12: building the registry from a list in which two descriptors share a
\* name fails at construction: no registry with a duplicated name is ever
\* built, and no lookup resolves a name that two descriptors carry.
C12_DuplicateNamesRejected ==
    /\ regPc = "built"
        => \A i, j \in 1..Len(registry) :
             i # j => registry[i].name # registry[j].name
    /\ resolved.index # 0
        => Cardinality({ i \in 1..Len(registry) :
                           registry[i].name = resolved.name }) = 1

\* What a run of caller s does when it executes alone: one gateway call on
\* the last 50 turns of its own conversation, and a returned list made of
\* that window followed by the turns its own invocation produced.
AsWhenAlone(s) ==
    LET r == sessions[s]
        w == Min(Len(r.input), ROLLING_MEMORY_WINDOW)
    IN  /\ r.calls <= 1
        /\ r.calls = 1
            => (/\ Len(r.context) = w
                /\ \A i \in 1..w : r.context[i] = r.input[Len(r.input) - w + i])
        /\ r.pc = "returned"
            => (/\ r.calls = 1
                /\ Len(r.result) = w + Len(r.produced)
                /\ \A i \in 1..w : r.result[i] = r.input[Len(r.input) - w + i]
                /\ \A i \in 1..Len(r.produced) : r.result[w + i] = r.produced[i]
                /\ \A i \in 1..Len(r.result) : r.result[i].id \div 1000 = s)

\* The loop appended the not-found text for some request.
NotFoundAppended ==
    \E i \in 1..Len(messages) : \E n \in {"Web_Search", "None"} :
        messages[i].text = NotFoundText(n)

\* C21: no run of run_agent_with_tools changes the tools list: whatever the
\* gateway requests, unknown names and raising tools included, the
\* descriptors and their order stay those of the list built at import.
C21_RegistryUnchanged ==
    /\ registry = BuildRegistry(tools)
    /\ regPc = "built"

C21_Witness ==
    /\ entry = "app" /\ pc = "returned"
    /\ NotFoundAppended
    /\ \E i \in 1..Len(toolLog) : toolLog[i].raised
    /\ registry = BuildRegistry(tools)

\* C22: under any interleaving of callers of get_agent the graph is built at
\* most once (so _AGENT_INSTANCE, once set, is never replaced) and every
\* caller receives the same instance.
C22_BuiltAtMostOnce ==
    /\ builds <= 1
    /\ \A s, t \in Sessions :
        (sessions[s].agent # 0 /\ sessions[t].agent # 0)
            => sessions[s].agent = sessions[t].agent

\* C23: trace_conversation never raises, with or without tracing: when the
\* agent run completes the result has success=True and the last message's
\* content as response; when the agent run raises, the result has
\* success=False, response "Error: <cause>" and the cause as error.
C23_TraceNeverRaises ==
    /\ evalPc # "raised"
    /\ Len(results) = Len(traced)
    /\ \A i \in 1..Len(results) :
        LET o == traced[i].outcome
        IN  /\ ~results[i].raised
            /\ ~o.raised => /\ results[i].success
                            /\ results[i].response = Last(o.produced).text
            /\ o.raised => /\ ~results[i].success
                           /\ results[i].response = <<"Error: ", o.cause>>
                           /\ results[i].error = o.cause

C23_Witness ==
    /\ \E i \in 1..Len(results) : traced[i].outcome.raised /\ ~results[i].success
    /\ \E i \in 1..Len(results) : ~traced[i].outcome.raised /\ results[i].success

\* Position in the session history of the human turn of submission k: each
\* earlier submission left its human turn, and a reply if its run succeeded.
Succeeded(k) == ~invoked[k].raised
HumanAt(k) == k + Cardinality({ j \in 1..(k - 1) : Succeeded(j) })

\* C24: in the chat mode of streamlit_app_with_evaluation the session history
\* holds one human turn per submission, an assistant turn right after the
\* human turn of each submission whose run succeeded and none for a failed
\* one; the agent is given the current prompt only, never earlier turns.
C24_SessionHistory ==
    ui = "evaluation" =>
        /\ Len(invoked) = prompts
        /\ Len(session_state) = prompts + Cardinality({ k \in 1..prompts : Succeeded(k) })
        /\ \A k \in 1..prompts :
            /\ session_state[HumanAt(k)] = HumanMessage(100 * k + 1, <<"question">>)
            /\ Succeeded(k) => /\ session_state[HumanAt(k) + 1].type = "ai"
                               /\ session_state[HumanAt(k) + 1].text = <<"final">>
            /\ ~Succeeded(k) => \/ HumanAt(k) = Len(session_state)
                                \/ session_state[HumanAt(k) + 1].type = "human"
            /\ Len(invoked[k].context) = 1
            /\ invoked[k].context[1].type = "human"
            /\ invoked[k].context[1].text = <<"question">>

C24_Witness ==
    /\ ui = "evaluation" /\ prompts = 3
    /\ ~Succeeded(1) /\ Succeeded(2) /\ ~Succeeded(3)
    /\ Len(session_state) = 4
    /\ session_state[2].type = "human" /\ session_state[3].type = "ai"

\* C25: run_evaluation calls trace_conversation once per query, in list
\* order, and returns a summary where total_tests is the number of queries,
\* results has one entry per query in the same order, successful_runs counts
\* the results with success=True, a failed run adds 0 to
\* total_execution_time, and an empty list gives zero counts and zero rates
\* without a division error.
C25_EvaluationSummary ==
    LET n == Len(test_queries)
        S == evaluation_summary
        SumTo[k \in 0..Len(traced)] ==
            IF k = 0 THEN 0
            ELSE SumTo[k - 1] + (IF traced[k].outcome.raised THEN 0
                                 ELSE traced[k].outcome.elapsed)
    IN  /\ evalPc # "raised"
        /\ Len(traced) <= n
        /\ \A i \in 1..Len(traced) : traced[i].query = test_queries[i]
        /\ evalPc = "returned" =>
            /\ Len(traced) = n
            /\ S.total_tests = n
            /\ Len(S.results) = n
            /\ \A i \in 1..n :
                /\ S.results[i].context[1].text = test_queries[i]
                /\ S.results[i].success = ~traced[i].outcome.raised
            /\ S.successful_runs = Cardinality({ i \in 1..n : S.results[i].success })
            /\ 0 <= S.successful_runs /\ S.successful_runs <= S.total_tests
            /\ S.total_execution_time = SumTo[n]
            /\ n > 0 => /\ S.success_rate = [num |-> S.successful_runs, den |-> n]
                        /\ S.average_execution_time = [num |-> SumTo[n], den |-> n]
            /\ n = 0 => /\ S.successful_runs = 0 /\ S.total_execution_time = 0
                        /\ S.results = <<>>
                        /\ S.success_rate.num = 0
                        /\ S.average_execution_time.num = 0

C25_Witness ==
    /\ evalPc = "returned"
    /\ evaluation_summary.total_tests >= 2
    /\ evaluation_summary.successful_runs >= 1
    /\ evaluation_summary.successful_runs < evaluation_summary.total_tests
    /\ evaluation_summary.total_execution_time > 0

\* C13: two interleaved runs share no mutable state (no step of a run
\* writes state that the other run reads), and each run returns and calls as
\* when it executes alone.
C13_NoSharedMutableState ==
    [][ /\ AGENT_INSTANCE' = AGENT_INSTANCE
        /\ \A s \in Sessions : AsWhenAlone(s)'
      ]_vars

\* What does hold of two interleaved runs: each run obtains a built agent
\* and returns and calls as when it executes alone.
IsolatedRuns ==
    \A s \in Sessions :
        /\ AsWhenAlone(s)
        /\ sessions[s].pc \in {"invoke", "returned", "raised"}
            => sessions[s].agent \in 1..builds


\* The displayed text carries the text of the exception.
ShowsException(d) == \E c \in Causes : \E j \in 1..Len(d.text) : d.text[j] = c

\* C14: when the agent run for a prompt fails, the handler does not raise
\* and what it shows is the generic apology, never the text of the exception.
C14_GenericApologyShown ==
    /\ ~handlerRaised
    /\ \A i \in 1..Len(shown) : ~ShowsException(shown[i])
    /\ \A k \in 1..Len(invoked) :
        invoked[k].raised => \E i \in 1..Len(shown) : shown[i] = Markdown(k, Apology)

\* C15: get_hub_stats never raises and returns one of its three sentences:
\* the most-downloaded-model sentence, "No models found for author
\* <author>." or "Error fetching models for <author>: <cause>"; so a failed
\* hub lookup is appended by the loop as an ordinary tool result.
C15_HubStatsAlwaysReturns ==
    [][ (ToolEntered /\ Last(toolLog').call.tool = "get_hub_stats")
        => LET author == Last(toolLog').call.positional
               appendedText == Last(messages').text
           IN  /\ ~Last(toolLog').raised
               /\ pc' = "loop"
               /\ Len(messages') = Len(messages) + 1
               /\ Last(toolLog').lookup = "model"
                    => (appendedText[1] = "The most downloaded model by "
                        /\ appendedText[3] = author.val /\ Len(appendedText) = 8)
               /\ Last(toolLog').lookup = "none"
                    => appendedText = <<"No models found for author ",
                                 author.key, author.val, ".">>
               /\ Last(toolLog').lookup = "raises"
                    => appendedText = <<"Error fetching models for ",
                                 author.key, author.val, ": ", "hub down">>
      ]_vars

C15_Witness ==
    /\ toolCalls >= 1
    /\ toolLog[toolCalls].call.tool = "get_hub_stats"
    /\ toolLog[toolCalls].lookup = "raises"
    /\ ~toolLog[toolCalls].raised
    /\ Last(messages).text[1] = "Error fetching models for "

\* C16: the external calls of a run are strictly sequential: no step is both
\* a gateway call and a tool call, a tool call happens only while the
\* iteration's gateway call has returned (the k-th iteration's tool call
\* after the k-th gateway call), and the tool entered is the one named by
\* the latest gateway response, with that response's arguments.
C16_StrictSequence ==
    [][ /\ ~(Len(gatewayLog') # Len(gatewayLog) /\ Len(toolLog') # Len(toolLog))
        /\ Len(gatewayLog') # Len(gatewayLog) => pc = "loop"
        /\ ToolEntered
            => (/\ pc = "tool"
                /\ gatewayCalls = step + 1
                /\ toolCalls < gatewayCalls
                /\ Last(gatewayLog).ok
                /\ RawRequest(Answer(gatewayCalls))
                /\ Last(toolLog').call.tool = RawName(Answer(gatewayCalls))
                /\ Last(toolLog').request = ToolArgs(ToolCallOf(Answer(gatewayCalls))))
      ]_vars

C16_Witness ==
    /\ toolCalls = 2 /\ gatewayCalls = 2
    /\ toolLog[1].call.tool # toolLog[2].call.tool

\* C17: at every point of a run the number of gateway calls is at most
\* max_steps and the number of tool calls at most the number of gateway
\* calls; the loop is left only by a final answer or after max_steps
\* iterations, so a gateway that requests a tool on every call causes
\* exactly max_steps iterations.
C17_OnlyTwoExits ==
    /\ gatewayCalls <= max_steps
    /\ toolCalls <= gatewayCalls
    /\ (entry = "app" /\ pc = "returned")
        => \/ (gatewayCalls >= 1 /\ Last(gatewayLog).ok
               /\ ~RawRequest(Answer(gatewayCalls)))
           \/ step = max_steps
    /\ (/\ entry = "app" /\ pc = "returned"
        /\ \A i \in 1..Len(gatewayLog) : gatewayLog[i].ok /\ RawRequest(Answer(i)))
        => (gatewayCalls = max_steps /\ step = max_steps)

\* The message the loop inspects on a gateway step: the last one before the
\* not-found text is appended.
Inspected ==
    IF pc' = "loop" THEN messages'[Len(messages') - 1] ELSE Last(messages')

\* C18: the inspected last message is treated as a tool request exactly when
\* it has a tool_call attribute or its content is a mapping with the key
\* "name", as a final answer otherwise; on the first final answer the run
\* returns at once, and after that nothing is called or appended.
C18_FinalAnswerStops ==
    [][ /\ (entry = "app" /\ GatewayReturned)
            => (/\ pc' \in {"returned", "tool", "loop"}
                /\ (pc' = "returned") <=> ~RawRequest(Inspected)
                /\ pc' = "returned"
                     => (result' = messages' /\ toolLog' = toolLog
                         /\ Last(messages') = Inspected))
        /\ (pc = "returned")
            => (/\ pc' = "returned" /\ messages' = messages /\ result' = result
                /\ gatewayLog' = gatewayLog /\ toolLog' = toolLog)
      ]_vars

C18_Witness ==
    /\ entry = "app" /\ pc = "returned"
    /\ gatewayCalls = 1 /\ toolCalls = 0 /\ max_steps >= 2
    /\ Last(result) = Answer(1)
    /\ Last(result).dict.present /\ Last(result).dict.name = Absent

\* C19: on every iteration of app.py the turns appended are exactly the
\* turns the agent invocation produced beyond its context, each once and in
\* order, for a conversation of any length, and the message inspected as
\* last is the newly produced one.
C19_AppendsProduced ==
    [][ (entry = "app" /\ GatewayReturned)
        => LET produced == Last(gatewayLog').produced
           IN  /\ Len(messages') >= Len(messages) + Len(produced)
               /\ SubSeq(messages', 1, Len(messages)) = messages
               /\ SubSeq(messages', Len(messages) + 1,
                         Len(messages) + Len(produced)) = produced
               /\ Inspected = Last(produced)
      ]_vars

\* C20: nothing is cached or deduplicated: between iterations the number of
\* executions of registered tools equals the number of gateway responses
\* that requested a registered tool.
C20_NoDeduplication ==
    (entry = "app" /\ pc \in {"loop", "returned"})
    => toolCalls = Cardinality({ i \in 1..Len(gatewayLog) :
                       gatewayLog[i].ok /\ RequestsKnown(Answer(i)) })

====
